---- MODULE Spec2Model ----
(***************************************************************************)
(* Model of src/controllers/mjc3/mjc3_joystick_mex.cpp: the MEX gateway of *)
(* the Thorlabs MJC3 joystick.  The state is the two file-scope globals    *)
(* (g_device, g_initialized), the transport library's side of the session  *)
(* (the handles hidapi has open, its outstanding initialisations), and     *)
(* what the last invocation of mexFunction was given, did and returned.    *)
(* One action per command of mexFunction; invocations are serialized in    *)
(* Spec.  SpecDecode is the first read over every value of each byte, and  *)
(* SpecConc runs two invocations statement by statement, interleaved.      *)
(***************************************************************************)
EXTENDS Integers, Sequences, FiniteSets, TLC

VARIABLES
    g_device,       \* static hid_device* g_device: NULL or a handle
    g_initialized,  \* static bool g_initialized
    live,           \* handles returned by hid_open and not yet hid_close'd
    hidInits,       \* successful hid_init calls not yet matched by hid_exit
    atExit,         \* cleanupDevice is registered with mexAtExit
    env,            \* is the device plugged in, can the library initialize
    input,          \* [nlhs, prhs] of the last invocation
    cmd,            \* the branch the last invocation took
    result,         \* what the last invocation handed back to the caller
    calls,          \* the transport calls the last invocation made, in order
    warnings,       \* identifiers of the warnings the last invocation raised
    pc,             \* where each interleaved invocation is (SpecConc)
    overlapped,     \* an invocation has taken a step while another was running
    hazard          \* the misuses of the transport that have happened

vars == <<g_device, g_initialized, live, hidInits, atExit, env, input, cmd,
          result, calls, warnings, pc, overlapped, hazard>>

-----------------------------------------------------------------------------
(* Program constants *)

MJC3_VID == 4883        \* 0x1313
MJC3_PID == 36864       \* 0x9000
REPORT_SIZE == 5
DefaultTimeout == 100
CommandBufSize == 64
NULL == 0

(* Bounds of the model *)

MaxHandles == 2         \* distinct handle values hid_open can return
MaxInits == 3           \* hid_init calls outstanding at once (SpecConc)

Handles == 1..MaxHandles

-----------------------------------------------------------------------------
(* C strings: sequences of one-character strings, NUL being the terminator *)

NUL == "NUL"

\* a string literal of the source, with its terminator
Lit(chars) == chars \o <<NUL>>

Min(a, b) == IF a < b THEN a ELSE b

\* the characters of a buffer up to, not including, its first NUL
CStr(buf) ==
    SubSeq(buf, 1, CHOOSE n \in 0..Len(buf) :
                       /\ \A i \in 1..n : buf[i] # NUL
                       /\ n = Len(buf) \/ buf[n + 1] = NUL)

\* mxGetString(pm, str, strlen): at most strlen-1 characters, then a NUL
mxGetString(chars, strlen) ==
    SubSeq(chars, 1, Min(Len(chars), strlen - 1)) \o <<NUL>>

\* strcmp(a, b): 0 when the two C strings are equal
strcmp(a, b) == IF CStr(a) = CStr(b) THEN 0 ELSE 1

\* mutant (C13): the byte taken as sign and magnitude
int8_SignMagnitude(b) == IF b >= 128 THEN -(b - 128) ELSE b

\* (int8_t)b for an unsigned char b
int8(b) == IF b >= 128 THEN b - 256 ELSE b

\* (int)d for a double d, held in tenths: truncation toward zero
IntOfTenths(t) == IF t >= 0 THEN t \div 10 ELSE -((-t) \div 10)

-----------------------------------------------------------------------------
(* The session a handler works on, and the transport calls it makes *)

Session ==
    [dev |-> g_device, init |-> g_initialized, live |-> live,
     inits |-> hidInits, calls |-> <<>>, warnings |-> <<>>]

\* a transport call as the log keeps it; out: the bytes it wrote for the caller
Call(s, fn, h, arg, ret) ==
    [s EXCEPT !.calls = Append(@, [fn |-> fn, h |-> h, arg |-> arg, ret |-> ret,
                                   out |-> <<>>])]

\* what the last transport call returned
Ret(s) == s.calls[Len(s.calls)].ret

\* mexWarnMsgIdAndTxt(id, ...)
Warn(s, id) == [s EXCEPT !.warnings = Append(@, id)]

\* hid_init(): 0 on success
hid_init(s, e) ==
    IF e.hidOk
    THEN [Call(s, "hid_init", NULL, <<>>, 0) EXCEPT !.inits = @ + 1]
    ELSE Call(s, "hid_init", NULL, <<>>, -1)

hid_exit(s) ==
    [Call(s, "hid_exit", NULL, <<>>, 0) EXCEPT
        !.inits = IF @ > 0 THEN @ - 1 ELSE 0]

\* hid_open(vid, pid, nullptr): a new handle when the device is there, else NULL
hid_open(s, e) ==
    IF e.present /\ e.fresh # NULL
    THEN [Call(s, "hid_open", NULL, <<MJC3_VID, MJC3_PID>>, e.fresh)
             EXCEPT !.live = @ \cup {e.fresh}]
    ELSE Call(s, "hid_open", NULL, <<MJC3_VID, MJC3_PID>>, NULL)

hid_close(s, h) ==
    [Call(s, "hid_close", h, <<>>, 0) EXCEPT !.live = @ \ {h}]

\* hid_read_timeout(dev, buffer, REPORT_SIZE, timeout_ms)
hid_read_timeout(s, timeout_ms, rd) ==
    [s EXCEPT !.calls = Append(@, [fn |-> "hid_read_timeout", h |-> s.dev,
                                   arg |-> <<REPORT_SIZE, timeout_ms>>,
                                   ret |-> rd.ret, out |-> rd.data])]

\* the bytes hid_read_timeout received go to the front of the buffer
Received(buffer, rd) ==
    [i \in 1..REPORT_SIZE |-> IF i <= rd.ret THEN rd.data[i] ELSE buffer[i]]

-----------------------------------------------------------------------------
(* initializeDevice(): initialize the HID library and open the MJC3 *)

\* InitAfterOpen returning on a failed hid_open without hid_exit
InitAfterOpen_NoExit(s) ==
    IF s.dev = NULL
    THEN [s |-> Warn(s, "MJC3:OpenFail"), ret |-> FALSE]
    ELSE [s |-> [Call(s, "hid_set_nonblocking", s.dev, <<1>>, 0)
                    EXCEPT !.init = TRUE],
          ret |-> TRUE]

\* InitAfterOpen leaving g_initialized as it was
InitAfterOpen_NoFlag(s) ==
    IF s.dev = NULL
    THEN [s |-> hid_exit(Warn(s, "MJC3:OpenFail")), ret |-> FALSE]
    ELSE [s |-> Call(s, "hid_set_nonblocking", s.dev, <<1>>, 0), ret |-> TRUE]

\* s: the session once g_device holds what hid_open returned
InitAfterOpen(s) ==
    IF s.dev = NULL
    THEN [s |-> hid_exit(Warn(s, "MJC3:OpenFail")), ret |-> FALSE]
    ELSE [s |-> [Call(s, "hid_set_nonblocking", s.dev, <<1>>, 0)
                    EXCEPT !.init = TRUE],
          ret |-> TRUE]

\* g_device = hid_open(...)
AssignDevice(s) == [s EXCEPT !.dev = Ret(s)]

\* InitAfterHidInit reading hid_init's 0 as its failure
InitAfterHidInit_WrongSign(s, e) ==
    IF Ret(s) = 0
    THEN [s |-> Warn(s, "MJC3:InitFail"), ret |-> FALSE]
    ELSE InitAfterOpen(AssignDevice(hid_open(s, e)))

\* s: the session once hid_init has returned
InitAfterHidInit(s, e) ==
    IF Ret(s) # 0
    THEN [s |-> Warn(s, "MJC3:InitFail"), ret |-> FALSE]
    ELSE InitAfterOpen(AssignDevice(hid_open(s, e)))

initializeDevice(s, e) ==
    IF s.init /\ s.dev # NULL
    THEN [s |-> s, ret |-> TRUE]
    ELSE InitAfterHidInit(hid_init(s, e), e)

(* cleanupDevice(): close the device and shut the library down *)

\* CleanupLibrary shutting the library down whatever the flag says
CleanupLibrary_Always(s) == [hid_exit(s) EXCEPT !.init = FALSE]

CleanupLibrary(s) ==
    IF s.init
    THEN [hid_exit(s) EXCEPT !.init = FALSE]
    ELSE s

\* CleanupHandle dropping the pointer without hid_close
CleanupHandle_Leak(s) == [s EXCEPT !.dev = NULL]

CleanupHandle(s) ==
    IF s.dev # NULL
    THEN [hid_close(s, s.dev) EXCEPT !.dev = NULL]
    ELSE s

\* mutant (C20): the library is shut down before the handle is closed
cleanupDevice_ExitFirst(s) == CleanupHandle(CleanupLibrary(s))

cleanupDevice(s) == CleanupLibrary(CleanupHandle(s))

(* readJoystickData(buffer, timeout_ms): one read with timeout *)

ZeroBuffer == [i \in 1..REPORT_SIZE |-> 0]

\* mutant (C16): a read error drops the handle, so that the next read reopens
ReadErrorWarned_Invalidate(s) ==
    IF Ret(s) # NULL
    THEN [Warn(s, "MJC3:ReadError") EXCEPT !.dev = NULL, !.init = FALSE]
    ELSE [s EXCEPT !.dev = NULL, !.init = FALSE]

\* s: the session once hid_error has returned
ReadErrorWarned(s) ==
    IF Ret(s) # NULL THEN Warn(s, "MJC3:ReadError") ELSE s

\* ReadClassify taking a timeout for data
ReadClassify_TimeoutAsData(s, buffer, rd) ==
    IF Ret(s) < 0
    THEN [s |-> ReadErrorWarned(Call(s, "hid_error", s.dev, <<>>, rd.errStr)),
          ret |-> FALSE, buffer |-> buffer]
    ELSE [s |-> s, ret |-> TRUE, buffer |-> buffer]

\* mutant (C15): a read error closes the session
ReadClassify_CloseOnError(s, buffer, rd) ==
    IF Ret(s) < 0
    THEN [s |-> cleanupDevice(ReadErrorWarned(Call(s, "hid_error", s.dev, <<>>, rd.errStr))),
          ret |-> FALSE, buffer |-> buffer]
    ELSE IF Ret(s) = 0
    THEN [s |-> s, ret |-> FALSE, buffer |-> buffer]
    ELSE [s |-> s, ret |-> TRUE, buffer |-> buffer]

\* s: the session once hid_read_timeout has returned
ReadClassify(s, buffer, rd) ==
    IF Ret(s) < 0
    THEN [s |-> ReadErrorWarned(Call(s, "hid_error", s.dev, <<>>, rd.errStr)),
          ret |-> FALSE, buffer |-> buffer]
    ELSE IF Ret(s) = 0
    THEN [s |-> s, ret |-> FALSE, buffer |-> buffer]
    ELSE [s |-> s, ret |-> TRUE, buffer |-> buffer]

\* o: what opening the device, when g_device was NULL, came to
ReadOpened(o, buffer, timeout_ms, e) ==
    IF ~o.ret
    THEN [s |-> o.s, ret |-> FALSE, buffer |-> buffer]
    ELSE ReadClassify(hid_read_timeout(o.s, timeout_ms, e.rd),
                      Received(buffer, e.rd), e.rd)

readJoystickData(s, buffer, timeout_ms, e) ==
    ReadOpened(IF s.dev = NULL THEN initializeDevice(s, e) ELSE [s |-> s, ret |-> TRUE],
               buffer, timeout_ms, e)

(* getDeviceInfo(): the info struct; a field never set reads as empty *)

Empty == <<>>

NewInfo ==
    [connected |-> Empty, vendor_id |-> Empty, product_id |-> Empty,
     manufacturer |-> Empty, product |-> Empty, serial_number |-> Empty]

\* one descriptor query and the mxSetField under its if
QueryString(r, fn, ret, field, text) ==
    [s    |-> Call(r.s, fn, r.s.dev, <<256>>, ret),
     info |-> IF ret = 0 THEN [r.info EXCEPT ![field] = <<text>>] ELSE r.info]

\* o: what opening the device, when g_device was NULL, came to
InfoOpened(o, e) ==
    IF ~o.ret
    THEN [s |-> o.s, info |-> [NewInfo EXCEPT !.connected = <<FALSE>>]]
    ELSE QueryString(
           QueryString(
             QueryString(
               [s |-> o.s,
                info |-> [NewInfo EXCEPT !.connected = <<TRUE>>,
                                         !.vendor_id = <<MJC3_VID>>,
                                         !.product_id = <<MJC3_PID>>]],
               "hid_get_manufacturer_string", e.mfgRet, "manufacturer", "Thorlabs"),
             "hid_get_product_string", e.prodRet, "product", "MJC3 Joystick"),
           "hid_get_serial_number_string", e.serRet, "serial_number", "Unknown")

getDeviceInfo(s, e) ==
    InfoOpened(IF s.dev = NULL THEN initializeDevice(s, e) ELSE [s |-> s, ret |-> TRUE],
               e)

(* mexFunction(nlhs, plhs, nrhs, prhs): the entry point *)

Error(id) == [kind |-> "error", val |-> id]
Value(kind, v) == [kind |-> kind, val |-> v]
NoValue == [kind |-> "none", val |-> <<>>]

mxIsChar(a) == a.class = "char"
mxIsNumeric(a) == a.class = "double"

\* mutant (C14): the speed-knob byte cast like the axes
Sample_SignedKnob(buffer) ==
    <<int8(buffer[1]), int8(buffer[2]), int8(buffer[3]), buffer[4], int8(buffer[5])>>

\* the 1x5 output of a read, from the bytes of the buffer
Sample(buffer) ==
    <<int8(buffer[1]), int8(buffer[2]), int8(buffer[3]), buffer[4], buffer[5]>>

ReadResult(r) ==
    [s |-> r.s, cmd |-> "read",
     result |-> IF r.ret THEN Value("matrix", Sample(r.buffer))
                         ELSE Value("matrix", <<>>)]

InfoResult(r) == [s |-> r.s, cmd |-> "info", result |-> Value("struct", r.info)]

\* mutant (C17): the second argument is not looked at
Timeout_Ignored(prhs) == DefaultTimeout

Timeout(prhs) ==
    IF Len(prhs) > 1 /\ mxIsNumeric(prhs[2])
    THEN IntOfTenths(prhs[2].val)
    ELSE DefaultTimeout

\* mutant (C12): test opens the device to see whether it is there
Dispatch_TestOpens(s, in, e, command) ==
    IF strcmp(command, Lit(<<"r", "e", "a", "d">>)) = 0
    THEN ReadResult(readJoystickData(s, ZeroBuffer, Timeout(in.prhs), e))
    ELSE IF strcmp(command, Lit(<<"i", "n", "f", "o">>)) = 0
    THEN InfoResult(getDeviceInfo(s, e))
    ELSE IF strcmp(command, Lit(<<"t", "e", "s", "t">>)) = 0
    THEN [s |-> initializeDevice(s, e).s, cmd |-> "test",
          result |-> Value("logical", TRUE)]
    ELSE IF strcmp(command, Lit(<<"c", "l", "o", "s", "e">>)) = 0
    THEN [s |-> cleanupDevice(s), cmd |-> "close",
          result |-> IF in.nlhs > 0 THEN Value("logical", TRUE) ELSE NoValue]
    ELSE [s |-> s, cmd |-> "error", result |-> Error("MJC3:InvalidCommand")]

Dispatch(s, in, e, command) ==
    IF strcmp(command, Lit(<<"r", "e", "a", "d">>)) = 0
    THEN ReadResult(readJoystickData(s, ZeroBuffer, Timeout(in.prhs), e))
    ELSE IF strcmp(command, Lit(<<"i", "n", "f", "o">>)) = 0
    THEN InfoResult(getDeviceInfo(s, e))
    ELSE IF strcmp(command, Lit(<<"t", "e", "s", "t">>)) = 0
    THEN [s |-> s, cmd |-> "test", result |-> Value("logical", TRUE)]
    ELSE IF strcmp(command, Lit(<<"c", "l", "o", "s", "e">>)) = 0
    THEN [s |-> cleanupDevice(s), cmd |-> "close",
          result |-> IF in.nlhs > 0 THEN Value("logical", TRUE) ELSE NoValue]
    ELSE [s |-> s, cmd |-> "error", result |-> Error("MJC3:InvalidCommand")]

mexFunction(s, in, e) ==
    IF Len(in.prhs) < 1
    THEN [s |-> s, cmd |-> "error", result |-> Error("MJC3:InvalidInput")]
    ELSE IF ~mxIsChar(in.prhs[1])
    THEN [s |-> s, cmd |-> "error", result |-> Error("MJC3:InvalidInput")]
    ELSE Dispatch(s, in, e, mxGetString(in.prhs[1].chars, CommandBufSize))

-----------------------------------------------------------------------------
(* What the caller can pass and what the transport can answer *)

Char(chars) == [class |-> "char", chars |-> chars, val |-> 0]
Double(tenths) == [class |-> "double", chars |-> <<>>, val |-> tenths]
Cell == [class |-> "cell", chars |-> <<>>, val |-> 0]

LongString == [i \in 1..70 |-> "x"]

CommandStrings ==
    { <<"r", "e", "a", "d">>, <<"i", "n", "f", "o">>, <<"t", "e", "s", "t">>,
      <<"c", "l", "o", "s", "e">>,
      <<>>, <<"R", "e", "a", "d">>, <<"r", "e", "a", "d", "s">>,
      <<"r", "e", "a", "d", NUL, "x">>, LongString }

FirstArgs == {Char(c) : c \in CommandStrings} \cup {Double(10)}
SecondArgs == {Double(25), Double(2500), Cell}

ArgLists ==
    {<<>>} \cup {<<a>> : a \in FirstArgs}
           \cup {<<a, b>> : a \in FirstArgs, b \in SecondArgs}

\* every argument list with one output requested, the short ones with none too
Inputs ==
    {[nlhs |-> 1, prhs |-> p] : p \in ArgLists}
    \cup {[nlhs |-> 0, prhs |-> p] : p \in {q \in ArgLists : Len(q) <= 1}}

NoInput == [nlhs |-> 0, prhs |-> <<>>]

\* reports the device can send; a short read delivers a prefix of one
Reports == { <<129, 127, 0, 1, 255>>, <<128, 255, 1, 2, 0>> }

\* what hid_read_timeout can return: -1, 0 (timeout) or 1..REPORT_SIZE bytes
ReadOutcomes ==
    {[ret |-> -1, data |-> <<>>, errStr |-> x] : x \in {NULL, 1}}
    \cup {[ret |-> 0, data |-> <<>>, errStr |-> NULL]}
    \cup {[ret |-> n, data |-> SubSeq(r, 1, n), errStr |-> NULL] :
             n \in 1..REPORT_SIZE, r \in Reports}

\* what a descriptor-string query can return: 0 on success, -1 on failure
StringRets == {0, -1}

\* is the device plugged in, can the library initialize
Conds == [present : BOOLEAN, hidOk : BOOLEAN]

\* the handle value a successful hid_open returns: an unused one, if any
Fresh ==
    IF Handles \ live = {} THEN NULL
    ELSE CHOOSE h \in Handles \ live : \A k \in Handles \ live : h <= k

NoSession ==
    [dev |-> NULL, init |-> FALSE, live |-> {}, inits |-> 0,
     calls |-> <<>>, warnings |-> <<>>]

NoEnv ==
    [present |-> FALSE, hidOk |-> FALSE, fresh |-> NULL,
     rd |-> [ret |-> 0, data |-> <<>>, errStr |-> NULL],
     mfgRet |-> 0, prodRet |-> 0, serRet |-> 0]

\* the branch of mexFunction an input takes
Branch(in) == mexFunction(NoSession, in, NoEnv).cmd

ReadInputs == {in \in Inputs : Branch(in) = "read"}
InfoInputs == {in \in Inputs : Branch(in) = "info"}
TestInputs == {in \in Inputs : Branch(in) = "test"}
CloseInputs == {in \in Inputs : Branch(in) = "close"}
ErrorInputs == {in \in Inputs : Branch(in) = "error"}

-----------------------------------------------------------------------------
(* The state machine *)

\* the invocations whose statements interleave in SpecConc
Invocations == {"A", "B"}

\* an invocation that has not been made, or has returned
Idle == [op |-> "none", at |-> "idle"]

Init ==
    /\ g_device = NULL
    /\ g_initialized = FALSE
    /\ live = {}
    /\ hidInits = 0
    /\ atExit = FALSE
    /\ env \in Conds
    /\ input = NoInput
    /\ cmd = "none"
    /\ result = NoValue
    /\ calls = <<>>
    /\ warnings = <<>>
    /\ pc = [t \in Invocations |-> Idle]
    /\ overlapped = FALSE
    /\ hazard = {}

\* the transport as the handler finds it
Now == [NoEnv EXCEPT !.present = env.present, !.hidOk = env.hidOk, !.fresh = Fresh]

\* mutant (C11): cleanupDevice is registered only once the arguments passed
Invoke_RegisterLate(in, e) ==
    \E r \in {mexFunction(Session, in, e)} :
        /\ atExit' = (atExit \/ r.result.kind # "error")
        /\ g_device' = r.s.dev
        /\ g_initialized' = r.s.init
        /\ live' = r.s.live
        /\ hidInits' = r.s.inits
        /\ calls' = r.s.calls
        /\ warnings' = r.s.warnings
        /\ input' = in
        /\ cmd' = r.cmd
        /\ result' = r.result
        /\ UNCHANGED <<env, pc, overlapped, hazard>>

\* one invocation of mexFunction, which first registers cleanupDevice
Invoke(in, e) ==
    \E r \in {mexFunction(Session, in, e)} :
        /\ atExit' = TRUE
        /\ g_device' = r.s.dev
        /\ g_initialized' = r.s.init
        /\ live' = r.s.live
        /\ hidInits' = r.s.inits
        /\ calls' = r.s.calls
        /\ warnings' = r.s.warnings
        /\ input' = in
        /\ cmd' = r.cmd
        /\ result' = r.result
        /\ UNCHANGED <<env, pc, overlapped, hazard>>

ReadCmd ==
    \E in \in ReadInputs, rd \in ReadOutcomes :
        Invoke(in, [Now EXCEPT !.rd = rd])

InfoCmd ==
    \E in \in InfoInputs, m \in StringRets, p \in StringRets, n \in StringRets :
        Invoke(in, [Now EXCEPT !.mfgRet = m, !.prodRet = p, !.serRet = n])

TestCmd == \E in \in TestInputs : Invoke(in, Now)

CloseCmd == \E in \in CloseInputs : Invoke(in, Now)

InvalidCmd == \E in \in ErrorInputs : Invoke(in, Now)

\* the MEX file is unloaded: the function registered with mexAtExit runs
Teardown ==
    /\ atExit
    /\ \E s \in {cleanupDevice(Session)} :
           /\ atExit' = FALSE
           /\ g_device' = s.dev
           /\ g_initialized' = s.init
           /\ live' = s.live
           /\ hidInits' = s.inits
           /\ calls' = s.calls
           /\ warnings' = s.warnings
           /\ input' = NoInput
           /\ cmd' = "atexit"
           /\ result' = NoValue
           /\ UNCHANGED <<env, pc, overlapped, hazard>>

\* the device is plugged in or pulled, the library starts or stops working
Environment ==
    /\ \E c \in Conds \ {env} : env' = c
    /\ UNCHANGED <<g_device, g_initialized, live, hidInits, atExit, input, cmd,
                   result, calls, warnings, pc, overlapped, hazard>>

Next ==
    \/ ReadCmd
    \/ InfoCmd
    \/ TestCmd
    \/ CloseCmd
    \/ InvalidCmd
    \/ Teardown
    \/ Environment

Spec == Init /\ [][Next]_vars

(* The decoding of a report, over every value of each of its bytes: the
   first read of a session, where the transport delivers a whole report *)

Bytes == 0..(2^8 - 1)

\* the reports that differ from one of Reports in at most one byte
WideReports ==
    {[r EXCEPT ![k] = b] : r \in Reports, k \in 1..REPORT_SIZE, b \in Bytes}

WideOutcomes ==
    {[ret |-> REPORT_SIZE, data |-> r, errStr |-> NULL] : r \in WideReports}

FirstRead ==
    /\ cmd = "none"
    /\ \E in \in ReadInputs, rd \in WideOutcomes :
           Invoke(in, [Now EXCEPT !.rd = rd])

SpecDecode == Init /\ [][FirstRead]_vars

(* Two invocations of mexFunction running at once, one statement at a time.
   The code takes no lock: each step reads the globals as they are then. *)

\* the process has died in a transport call made on a bad handle
Crashed == [op |-> "none", at |-> "crashed"]

At(t, l) == pc[t].at = l
Goto(t, l) == pc' = [pc EXCEPT ![t].at = l]
Return(t) == pc' = [pc EXCEPT ![t] = Idle]

\* where a command starts, and where it goes on once the device is open
Entry(op) == IF op = "close" THEN "c_test" ELSE "dev_check"
Body(op) == IF op = "read" THEN "r_read" ELSE "q_mfg"

\* the globals and the transport's side, from the session a statement leaves
Shared(s) ==
    /\ g_device' = s.dev
    /\ g_initialized' = s.init
    /\ live' = s.live
    /\ hidInits' = s.inits

Untouched ==
    UNCHANGED <<atExit, env, input, cmd, result, calls, warnings>>

QueryCalls ==
    {"hid_get_manufacturer_string", "hid_get_product_string",
     "hid_get_serial_number_string"}

\* what is wrong with passing g_device to fn now
UseOf(fn) ==
    IF g_device \in live THEN {}
    ELSE IF g_device = NULL THEN {"null_handle"}
    ELSE IF fn = "hid_read_timeout" THEN {"read_released"}
    ELSE IF fn \in QueryCalls THEN {"query_released"}
    ELSE {"call_released"}

\* a handle is open that g_device no longer holds: nothing can close it
Leaked == IF live' \ {g_device'} # {} THEN {"leak"} ELSE {}

\* t takes a step, in which these misuses happen
Ghost(t, uses) ==
    /\ overlapped' = (overlapped \/ \E u \in Invocations \ {t} : ~At(u, "idle"))
    /\ hazard' = hazard \cup uses \cup Leaked

\* t passes g_device to fn and goes on at l; on a handle that is not open
\* the call is undefined: it returns something, or the process dies
Use(t, fn, l) ==
    /\ UNCHANGED <<g_device, g_initialized, hidInits>>
    /\ live' = live
    /\ Ghost(t, UseOf(fn))
    /\ \/ IF l = "idle" THEN Return(t) ELSE Goto(t, l)
       \/ /\ g_device \notin live
          /\ pc' = [u \in Invocations |-> Crashed]

\* mutant (C19): the closed handle stays in g_device
ClearDevice_Keeps(s) == s

\* g_device = nullptr
ClearDevice(s) == [s EXCEPT !.dev = NULL]

\* mexFunction is entered: cleanupDevice is registered, the command is taken
Start(t) ==
    /\ At(t, "idle")
    /\ \E op \in {"read", "info", "close"} :
           pc' = [pc EXCEPT ![t] = [op |-> op, at |-> Entry(op)]]
    /\ atExit' = TRUE
    /\ UNCHANGED <<g_device, g_initialized, hidInits>>
    /\ live' = live
    /\ Ghost(t, {})
    /\ UNCHANGED <<env, input, cmd, result, calls, warnings>>

\* if (!g_device) of readJoystickData and getDeviceInfo
CheckDevice(t) ==
    /\ At(t, "dev_check")
    /\ Goto(t, IF g_device = NULL THEN "i_guard" ELSE Body(pc[t].op))
    /\ UNCHANGED <<g_device, g_initialized, hidInits>>
    /\ live' = live
    /\ Ghost(t, {})
    /\ Untouched

\* the statements of initializeDevice
InitGuard(t) ==
    /\ At(t, "i_guard")
    /\ Goto(t, IF g_initialized /\ g_device # NULL THEN Body(pc[t].op) ELSE "i_init")
    /\ UNCHANGED <<g_device, g_initialized, hidInits>>
    /\ live' = live
    /\ Ghost(t, {})
    /\ Untouched

InitLibrary(t) ==
    /\ At(t, "i_init")
    /\ hidInits < MaxInits
    /\ \E s \in {hid_init(Session, Now)} :
           /\ Shared(s)
           /\ IF Ret(s) # 0 THEN Return(t) ELSE Goto(t, "i_open")
    /\ Ghost(t, {})
    /\ Untouched

\* g_device = hid_open(...): an open handle g_device held is overwritten
InitOpen(t) ==
    /\ At(t, "i_open")
    /\ Shared(AssignDevice(hid_open(Session, Now)))
    /\ Goto(t, "i_test")
    /\ Ghost(t, IF g_device \in live THEN {"open_overwrote"} ELSE {})
    /\ Untouched

InitTest(t) ==
    /\ At(t, "i_test")
    /\ Goto(t, IF g_device = NULL THEN "i_exit" ELSE "i_nonblock")
    /\ UNCHANGED <<g_device, g_initialized, hidInits>>
    /\ live' = live
    /\ Ghost(t, {})
    /\ Untouched

InitExit(t) ==
    /\ At(t, "i_exit")
    /\ Shared(hid_exit(Session))
    /\ Return(t)
    /\ Ghost(t, {})
    /\ Untouched

InitNonblocking(t) ==
    /\ At(t, "i_nonblock")
    /\ Use(t, "hid_set_nonblocking", "i_flag")
    /\ Untouched

InitFlag(t) ==
    /\ At(t, "i_flag")
    /\ Shared([Session EXCEPT !.init = TRUE])
    /\ Goto(t, Body(pc[t].op))
    /\ Ghost(t, {})
    /\ Untouched

\* the statements of readJoystickData after the device check
ReadTransport(t) ==
    /\ At(t, "r_read")
    /\ \E ret \in {-1, 0, REPORT_SIZE} :
           Use(t, "hid_read_timeout", IF ret < 0 THEN "r_error" ELSE "idle")
    /\ Untouched

ReadError(t) ==
    /\ At(t, "r_error")
    /\ Use(t, "hid_error", "idle")
    /\ Untouched

\* the descriptor queries of getDeviceInfo
QueryManufacturer(t) ==
    /\ At(t, "q_mfg")
    /\ Use(t, "hid_get_manufacturer_string", "q_prod")
    /\ Untouched

QueryProduct(t) ==
    /\ At(t, "q_prod")
    /\ Use(t, "hid_get_product_string", "q_ser")
    /\ Untouched

QuerySerial(t) ==
    /\ At(t, "q_ser")
    /\ Use(t, "hid_get_serial_number_string", "idle")
    /\ Untouched

\* the statements of cleanupDevice
CloseTest(t) ==
    /\ At(t, "c_test")
    /\ Goto(t, IF g_device # NULL THEN "c_close" ELSE "c_flag")
    /\ UNCHANGED <<g_device, g_initialized, hidInits>>
    /\ live' = live
    /\ Ghost(t, {})
    /\ Untouched

CloseHandle(t) ==
    /\ At(t, "c_close")
    /\ Shared(hid_close(Session, g_device))
    /\ Goto(t, "c_null")
    /\ Ghost(t, UseOf("hid_close"))
    /\ Untouched

CloseNull(t) ==
    /\ At(t, "c_null")
    /\ Shared(ClearDevice(Session))
    /\ Goto(t, "c_flag")
    /\ Ghost(t, {})
    /\ Untouched

CloseFlagTest(t) ==
    /\ At(t, "c_flag")
    /\ IF g_initialized THEN Goto(t, "c_exit") ELSE Return(t)
    /\ UNCHANGED <<g_device, g_initialized, hidInits>>
    /\ live' = live
    /\ Ghost(t, {})
    /\ Untouched

CloseExit(t) ==
    /\ At(t, "c_exit")
    /\ Shared(hid_exit(Session))
    /\ Goto(t, "c_clear")
    /\ Ghost(t, {})
    /\ Untouched

CloseClear(t) ==
    /\ At(t, "c_clear")
    /\ Shared([Session EXCEPT !.init = FALSE])
    /\ Return(t)
    /\ Ghost(t, {})
    /\ Untouched

NextConc ==
    \E t \in Invocations :
        \/ Start(t)
        \/ CheckDevice(t)
        \/ InitGuard(t)
        \/ InitLibrary(t)
        \/ InitOpen(t)
        \/ InitTest(t)
        \/ InitExit(t)
        \/ InitNonblocking(t)
        \/ InitFlag(t)
        \/ ReadTransport(t)
        \/ ReadError(t)
        \/ QueryManufacturer(t)
        \/ QueryProduct(t)
        \/ QuerySerial(t)
        \/ CloseTest(t)
        \/ CloseHandle(t)
        \/ CloseNull(t)
        \/ CloseFlagTest(t)
        \/ CloseExit(t)
        \/ CloseClear(t)

SpecConc == Init /\ [][NextConc]_vars

-----------------------------------------------------------------------------
(* Vocabulary of the properties *)

\* the positions in calls of the calls to fn
CallsTo(fn) == {i \in DOMAIN calls : calls[i].fn = fn}

\* the last invocation tried to open the device and could not
OpenFailed ==
    \/ \E i \in CallsTo("hid_init") : calls[i].ret # 0
    \/ \E i \in CallsTo("hid_open") : calls[i].ret = NULL

\* the session holds no handle and its flag is down
Closed == g_device = NULL /\ ~g_initialized

EmptyResult == Value("matrix", <<>>)

-----------------------------------------------------------------------------
(* C1: a read whose hid_read_timeout returned 1..4 bytes gives the caller *)
(* the empty result; a short report is never decoded into a sample.       *)
C1_ShortReadIsEmpty ==
    (cmd = "read" /\ \E i \in CallsTo("hid_read_timeout") :
                        calls[i].ret \in 1..(REPORT_SIZE - 1))
        => result = EmptyResult

(* C2: a read never ends in a hard failure; a timeout, a transport error  *)
(* and a failed open all give the empty result, and a 5-element sample    *)
(* comes only from a read on which the transport delivered bytes.         *)
C2_ReadNeverFails ==
    cmd = "read" =>
        /\ result.kind = "matrix"
        /\ Len(result.val) \in {0, 5}
        /\ OpenFailed => result = EmptyResult /\ CallsTo("hid_read_timeout") = {}
        /\ (\E i \in CallsTo("hid_read_timeout") : calls[i].ret <= 0)
               => result = EmptyResult
        /\ result # EmptyResult
               => \E i \in CallsTo("hid_read_timeout") : calls[i].ret > 0

C2_Witness ==
    /\ cmd = "read"
    /\ result = EmptyResult
    /\ \E i \in CallsTo("hid_read_timeout") : calls[i].ret < 0

(* C3: the open flag is up exactly when the session holds a handle, and   *)
(* that handle is one hid_open returned and hid_close has not yet closed. *)
C3_FlagIffHandle ==
    /\ g_initialized <=> g_device # NULL
    /\ g_device # NULL => g_device \in live

C3_Witness ==
    /\ g_initialized
    /\ g_device \in live
    /\ cmd = "read"
    /\ calls[1].fn = "hid_read_timeout"

(* C4: at most one handle is open at the transport, and it is the one the *)
(* session holds: no handle is overwritten and leaked.                    *)
C4_AtMostOneHandle ==
    /\ Cardinality(live) <= 1
    /\ live \subseteq {g_device}

C4_Witness ==
    /\ live = {g_device}
    /\ cmd = "info"
    /\ calls[1].fn = "hid_get_manufacturer_string"

\* this step is one invocation that took the branch c (Teardown sets cmd to
\* "atexit", Environment changes env)
Ran(c) == cmd' = c /\ env' = env

(* C5: from every state the close command succeeds and leaves the session *)
(* closed; a close that follows a close also succeeds, leaves the session *)
(* closed and makes no transport call at all.                             *)
C5_CloseIdempotent ==
    [][Ran("close") =>
          /\ result'.kind \in {"logical", "none"}
          /\ result'.kind = "logical" => result'.val = TRUE
          /\ Closed'
          /\ cmd = "close" => calls' = <<>>]_vars

C5_Witness ==
    /\ cmd = "close"
    /\ calls = <<>>
    /\ Closed
    /\ result = Value("logical", TRUE)

(* C6: with the session closed, the device present and the library able   *)
(* to initialize, a read or info command opens the device itself and      *)
(* leaves the session open, however many closes went before.              *)
C6_LazyOpen ==
    [][((Ran("read") \/ Ran("info")) /\ g_device = NULL
            /\ env.present /\ env.hidOk)
          => /\ g_device' # NULL
             /\ g_device' \in live'
             /\ g_initialized'
             /\ \E i \in DOMAIN calls' :
                    calls'[i].fn = "hid_open" /\ calls'[i].ret = g_device']_vars

C6_Witness ==
    /\ cmd = "read"
    /\ g_initialized
    /\ g_device \in live
    /\ CallsTo("hid_open") # {}

(* C7: a failed open (hid_init failing, or hid_open finding no device)    *)
(* leaves the session closed with the library initialization of that      *)
(* attempt undone, and the next read or info, once the device and the     *)
(* library are available, attempts the open again and succeeds.           *)
C7_OpenFailureRecoverable ==
    [][/\ OpenFailed' => Closed' /\ live' = {} /\ hidInits' = 0
       /\ (OpenFailed /\ (Ran("read") \/ Ran("info")) /\ env.present /\ env.hidOk)
             => /\ ~OpenFailed'
                /\ CallsTo("hid_open")' # {}
                /\ g_initialized'
                /\ g_device' \in live']_vars

C7_Witness ==
    /\ OpenFailed
    /\ CallsTo("hid_exit") # {}
    /\ Closed
    /\ hidInits = 0

\* the command names mexFunction documents
ValidCommands ==
    { <<"r", "e", "a", "d">>, <<"i", "n", "f", "o">>, <<"t", "e", "s", "t">>,
      <<"c", "l", "o", "s", "e">> }

\* no command argument, a command that is no string, or an unknown command
InvalidInvocation(in) ==
    \/ Len(in.prhs) < 1
    \/ in.prhs[1].class # "char"
    \/ in.prhs[1].chars \notin ValidCommands

\* this step is one invocation of mexFunction
Invoked == env' = env /\ cmd' # "atexit"

(* C8: an invocation with no command argument, a non-string command or a  *)
(* command string outside {read, info, test, close} ends in a hard        *)
(* failure, leaves the session as it was and makes no transport call.     *)
C8_InvalidRejected ==
    [][(Invoked /\ InvalidInvocation(input'))
          => /\ result'.kind = "error"
             /\ calls' = <<>>
             /\ g_device' = g_device
             /\ g_initialized' = g_initialized
             /\ live' = live
             /\ hidInits' = hidInits]_vars

(* C9: every result of info carries vendor_id 0x1313 and product_id       *)
(* 0x9000, with the device connected and with connected = false alike.    *)
C9_InfoCarriesIds ==
    cmd = "info" =>
        /\ result.kind = "struct"
        /\ result.val.vendor_id = <<MJC3_VID>>
        /\ result.val.product_id = <<MJC3_PID>>

\* the descriptor queries of info, the field each fills and its default
Queries ==
    { [fn |-> "hid_get_manufacturer_string", field |-> "manufacturer",
       text |-> "Thorlabs"],
      [fn |-> "hid_get_product_string", field |-> "product",
       text |-> "MJC3 Joystick"],
      [fn |-> "hid_get_serial_number_string", field |-> "serial_number",
       text |-> "Unknown"] }

(* C10: when info runs on an open session and a descriptor query fails,   *)
(* the field of that query holds its default string; the field is never   *)
(* left unset and info does not fail.                                     *)
C10_DefaultOnQueryFailure ==
    (cmd = "info" /\ g_device # NULL) =>
        /\ result.kind = "struct"
        /\ \A q \in Queries :
              (\E i \in CallsTo(q.fn) : calls[i].ret # 0)
                  => result.val[q.field] = <<q.text>>


\* C11: every invocation, a failing one included, leaves cleanupDevice
\* registered for the unload of the MEX file; the unload runs it, and then
\* no handle is open and the library is shut down.  A handle is closed only
\* while it is open, and at most one per step, so that each handle opened is
\* closed exactly once by the time the unload has run.
C11_TeardownReleases ==
    [][ /\ Invoked => atExit'
        /\ Ran("atexit") =>
              /\ atExit /\ ~atExit'
              /\ Closed'
              /\ live' = {}
              /\ hidInits' = 0
        /\ env' = env =>
              /\ Cardinality(CallsTo("hid_close")') <= 1
              /\ \A i \in CallsTo("hid_close")' :
                    calls'[i].h \in live /\ calls'[i].h \notin live' ]_vars

\* the unload closed a handle that no close command had closed
C11_Witness ==
    /\ cmd = "atexit"
    /\ CallsTo("hid_close") # {}
    /\ CallsTo("hid_exit") # {}
    /\ live = {}


\* C12: test returns logical true, makes no transport call, raises no
\* warning and leaves the session (handle, flag, live handles, outstanding
\* hid_init calls) as it was, open or closed.
C12_TestIsPure ==
    [][ Ran("test") =>
          /\ result' = Value("logical", TRUE)
          /\ calls' = <<>>
          /\ warnings' = <<>>
          /\ g_device' = g_device
          /\ g_initialized' = g_initialized
          /\ live' = live
          /\ hidInits' = hidInits ]_vars

\* test ran on a closed session with the device there, and did not open it
C12_Witness ==
    /\ cmd = "test"
    /\ result = Value("logical", TRUE)
    /\ Closed
    /\ env.present /\ env.hidOk


\* v is the two's-complement reading of the byte b
TwosComplement(b, v) == v \in -128..127 /\ (v - b) % 256 = 0

\* the whole reports received by the read: what hid_read_timeout wrote
WholeReports ==
    {calls[i].out : i \in {j \in CallsTo("hid_read_timeout") :
                              calls[j].ret = REPORT_SIZE}}

\* C13: a read that received the 5-byte report b returns the 1x5 sample
\* [s(b0) s(b1) s(b2) b3 b4], s the two's-complement reading of a byte and
\* b3, b4 as they came; 81 7F 00 01 FF gives [-127 127 0 1 255].
C13_DecodeExact ==
    cmd = "read" =>
        \A b \in WholeReports :
            /\ result.kind = "matrix"
            /\ Len(result.val) = 5
            /\ \A k \in 1..3 : TwosComplement(b[k], result.val[k])
            /\ result.val[4] = b[4]
            /\ result.val[5] = b[5]
            /\ b = <<129, 127, 0, 1, 255>> => result.val = <<-127, 127, 0, 1, 255>>

\* the read of the report 81 7F 00 01 FF
C13_Witness ==
    /\ cmd = "read"
    /\ WholeReports = {<<129, 127, 0, 1, 255>>}
    /\ result = Value("matrix", <<-127, 127, 0, 1, 255>>)


\* the read returned a sample
Sampled == cmd = "read" /\ result.kind = "matrix" /\ result.val # <<>>

ReadErrored ==
    cmd = "read" /\ \E i \in CallsTo("hid_read_timeout") : calls[i].ret < 0

\* C15: a read whose transport read fails keeps the session: the handle
\* stays in g_device and live, the flag stays true, nothing is closed or shut
\* down.  The read or info that follows uses that handle and calls neither
\* hid_init nor hid_open, and info reports connected = true.
C15_ReadErrorKeepsSession ==
    [][ /\ Ran("read") /\ ReadErrored' =>
              /\ g_device' # NULL
              /\ g_device' \in live'
              /\ g_initialized'
              /\ g_device # NULL => g_device' = g_device /\ live' = live
              /\ hidInits' = 1
              /\ CallsTo("hid_close")' = {}
              /\ CallsTo("hid_exit")' = {}
        /\ ReadErrored /\ (Ran("read") \/ Ran("info")) =>
              /\ g_device' = g_device
              /\ CallsTo("hid_init")' = {}
              /\ CallsTo("hid_open")' = {}
              /\ calls' # <<>>
              /\ \A i \in DOMAIN calls' : calls'[i].h = g_device
        /\ ReadErrored /\ Ran("read") => calls'[1].fn = "hid_read_timeout"
        /\ ReadErrored /\ Ran("info") => result'.val.connected = <<TRUE>> ]_vars

\* a read on the open session failed and warned; the handle is still held
C15_Witness ==
    /\ ReadErrored
    /\ warnings = <<"MJC3:ReadError">>
    /\ calls[1].fn = "hid_read_timeout"
    /\ g_initialized
    /\ g_device \in live


\* a read step whose transport read failed ends on the hid_error query:
\* nothing is reopened in that step
NoReopenForced ==
    Ran("read") /\ ReadErrored' => calls'[Len(calls')].fn = "hid_error"

\* C16 as claimed: a read that fails on the open session forces no reopen,
\* and the read that follows goes through the open path (hid_init, hid_open).
C16_NextReadReopens ==
    [][ /\ NoReopenForced
        /\ ReadErrored /\ Ran("read") => calls'[1].fn = "hid_init" ]_vars

\* C16, amended: a read that fails on the open session forces no reopen and
\* keeps the handle, and a read goes through the open path exactly when
\* g_device is NULL: the read that follows a failed read calls
\* hid_read_timeout on the handle kept, not hid_init.
C16_OpenPathOnlyWhenClosed ==
    [][ /\ NoReopenForced
        /\ Ran("read") /\ ReadErrored' => g_device' # NULL
        /\ Ran("read") => (CallsTo("hid_init")' # {} <=> g_device = NULL)
        /\ ReadErrored /\ Ran("read") => calls'[1].fn = "hid_read_timeout" ]_vars

\* the device is gone and a read on the handle kept has failed, silently
C16_Witness ==
    /\ ReadErrored
    /\ ~env.present
    /\ CallsTo("hid_init") = {}
    /\ warnings = <<>>
    /\ g_device # NULL


\* t is the timeout the caller of the last command asked for: the integer
\* part of the numeric second argument (the argument itself when it is a
\* whole number), 100 when there is none or it is not numeric
AskedTimeout(t) ==
    IF Len(input.prhs) >= 2 /\ input.prhs[2].class = "double"
    THEN /\ 10 * t <= input.prhs[2].val
         /\ input.prhs[2].val < 10 * t + 10
    ELSE t = 100

\* C17: a read makes exactly one transport read, of 5 bytes, on the handle
\* held, when the session was open or the read opened it, and none when the
\* open failed; it never makes a second one.  The timeout passed is the
\* caller's numeric argument, 100 ms when that is missing or not numeric.
C17_OneReadPerPoll ==
    cmd = "read" =>
        /\ Cardinality(CallsTo("hid_read_timeout")) = IF OpenFailed THEN 0 ELSE 1
        /\ \A i \in CallsTo("hid_read_timeout") :
              /\ calls[i].h = g_device /\ g_device # NULL
              /\ Len(calls[i].arg) = 2
              /\ calls[i].arg[1] = 5
              /\ AskedTimeout(calls[i].arg[2])

\* a read with timeout 250 made its transport read with 250
C17_Witness ==
    /\ cmd = "read"
    /\ Len(input.prhs) = 2
    /\ input.prhs[2] = Double(2500)
    /\ \E i \in CallsTo("hid_read_timeout") : calls[i].arg = <<5, 250>>


\* the last command was a read whose transport read timed out
TimedOut ==
    cmd = "read" /\ \E i \in CallsTo("hid_read_timeout") : calls[i].ret = 0

\* what readJoystickData gives back of one poll: its return value (false is
\* the empty result of read) and the warnings it raised
InternalOutcome == [ret |-> result # EmptyResult, warnings |-> warnings]

\* C18: the internal outcome of a poll tells a timeout (NoData) from a
\* transport error (Error): a read that fails at the transport right after a
\* read that timed out does not have the same internal outcome.
C18_OutcomeDistinguishes ==
    [][ TimedOut /\ Ran("read") /\ ReadErrored' =>
            InternalOutcome' # InternalOutcome ]_vars


\* the transport calls that take a device handle
HandleCalls ==
    {"hid_set_nonblocking", "hid_read_timeout", "hid_error", "hid_close",
     "hid_get_manufacturer_string", "hid_get_product_string",
     "hid_get_serial_number_string"}

\* h is open when the i-th transport call of the step is made: it was live
\* before the step or an earlier call of the step opened it, and no earlier
\* call of the step closed it
OpenAt(h, i) ==
    /\ \/ h \in live
       \/ \E j \in 1..(i - 1) : calls'[j].fn = "hid_open" /\ calls'[j].ret = h
    /\ ~\E j \in 1..(i - 1) : calls'[j].fn = "hid_close" /\ calls'[j].h = h

\* one hid_init outstanding while the session is open, none otherwise
Balanced == hidInits = IF g_device # NULL THEN 1 ELSE 0

\* C20: every transport call that takes a handle is made on a handle that is
\* not NULL and is open at that moment; hid_exit is never called while a
\* handle is open; hid_init and hid_exit are balanced, one hid_init being
\* outstanding exactly while the session is open.
C20_CallsWellOrdered ==
    /\ Balanced
    /\ [][ env' = env =>
             /\ \A i \in DOMAIN calls' :
                   /\ calls'[i].fn \in HandleCalls =>
                         calls'[i].h # NULL /\ OpenAt(calls'[i].h, i)
                   /\ calls'[i].fn = "hid_exit" =>
                         \A h \in Handles : ~OpenAt(h, i)
                   /\ calls'[i].fn = "hid_open" => calls'[i - 1].fn = "hid_init"
             /\ Balanced' ]_vars

\* a read opened the device, read from it, failed and asked for the error
C20_Witness ==
    /\ cmd = "read"
    /\ Len(calls) = 5
    /\ calls[2].fn = "hid_open"
    /\ calls[3].fn = "hid_set_nonblocking"
    /\ calls[5].fn = "hid_error"
    /\ calls[5].h = g_device
    /\ hidInits = 1


\* no invocation is running
Quiet == \A t \in Invocations : At(t, "idle")

\* C19: nothing in the code keeps two invocations apart.  As long as no
\* invocation has taken a step while another was running, no transport call
\* is made on a bad handle, no handle leaks, and between invocations the flag
\* is true exactly when g_device holds the one open handle; every misuse of
\* the transport follows an overlap of two invocations.
C19_SafeWhileSerialized ==
    /\ hazard # {} => overlapped
    /\ ~overlapped /\ Quiet =>
          /\ g_initialized <=> g_device # NULL
          /\ live = IF g_device = NULL THEN {} ELSE {g_device}

\* interleaved: a read and a descriptor query were made on a handle that a
\* concurrent close had released, and a handle opened by one of two racing
\* opens was overwritten and is open for good
C19_Witness ==
    /\ overlapped
    /\ {"read_released", "query_released", "open_overwrote", "leak"} \subseteq hazard
    /\ live \ {g_device} # {}

=============================================================================
